---- MODULE Spec2Model ----
(***************************************************************************)
(* Legal-document search engine: LegalSearchEngine (legal_search.py) and   *)
(* EnhancedLegalSearchEngine (enhanced_legal_search.py).                   *)
(*                                                                         *)
(* Text is modelled character by character: a string is a sequence of     *)
(* one-character strings, a file is a sequence of lines.  The Arabic       *)
(* keywords of the source are written in a Latin transliteration of the    *)
(* same length (the module text is ASCII only):                            *)
(*     albab  = the chapter keyword  (5 letters)                           *)
(*     alfsl  = the section keyword  (5 letters)                           *)
(*     almadt = the article keyword  (6 letters)                           *)
(***************************************************************************)
EXTENDS Integers, Sequences, FiniteSets, TLC

(***************************************************************************)
(* Bounds of the model                                                     *)
(***************************************************************************)
\* number of index_document calls in one behaviour
MaxCalls == 2
\* length of the query strings that search is called with
MaxQueryLen == 3
\* number of lines after the first page marker of a segmented document
MaxLines == 4
\* number of documents one segmenter is run on, one after the other
MaxParses == 2

(***************************************************************************)
(* Characters and strings                                                  *)
(***************************************************************************)
Letters == {"a", "b", "c", "d", "e", "f", "g", "h", "i", "k", "l", "m", "r", "s", "t"}
Upper == {"A"}
Digits == {"0", "1", "2", "3", "4", "5", "6", "7", "8", "9"}

IsSpace(c) == c = " "

DigitVal(c) ==
    CASE c = "0" -> 0 [] c = "1" -> 1 [] c = "2" -> 2 [] c = "3" -> 3 [] c = "4" -> 4
      [] c = "5" -> 5 [] c = "6" -> 6 [] c = "7" -> 7 [] c = "8" -> 8 [] OTHER -> 9

\* str.lower() on one character
LowerChar(c) == IF c = "A" THEN "a" ELSE c

RECURSIVE LStrip(_)
LStrip(s) == IF s # <<>> /\ IsSpace(Head(s)) THEN LStrip(Tail(s)) ELSE s

RECURSIVE RStrip(_)
RStrip(s) ==
    IF s # <<>> /\ IsSpace(s[Len(s)]) THEN RStrip(SubSeq(s, 1, Len(s) - 1)) ELSE s

\* str.strip()
Strip(s) == RStrip(LStrip(s))

\* str.startswith(prefix)
StartsWith(s, prefix) ==
    /\ Len(s) >= Len(prefix)
    /\ SubSeq(s, 1, Len(prefix)) = prefix

\* number of leading characters of s that are decimal digits (\d+ is greedy)
RECURSIVE DigitRun(_)
DigitRun(s) == IF s # <<>> /\ Head(s) \in Digits THEN 1 + DigitRun(Tail(s)) ELSE 0

\* int(digits)
RECURSIVE ToInt(_)
ToInt(s) == IF s = <<>> THEN 0 ELSE 10 * ToInt(SubSeq(s, 1, Len(s) - 1)) + DigitVal(s[Len(s)])

\* str(n) for the small non-negative integers that occur as ids and page numbers
RECURSIVE ToStr(_)
ToStr(n) ==
    LET d == CASE n % 10 = 0 -> "0" [] n % 10 = 1 -> "1" [] n % 10 = 2 -> "2"
               [] n % 10 = 3 -> "3" [] n % 10 = 4 -> "4" [] n % 10 = 5 -> "5"
               [] n % 10 = 6 -> "6" [] n % 10 = 7 -> "7" [] n % 10 = 8 -> "8"
               [] OTHER -> "9"
    IN IF n < 10 THEN <<d>> ELSE ToStr(n \div 10) \o <<d>>

(***************************************************************************)
(* Keywords and patterns of the segmenter                                  *)
(***************************************************************************)
PageMarker == <<"#", "#", " ", "P", "a", "g", "e", " ">>
ChapterKeyword == <<"a", "l", "b", "a", "b">>
SectionKeyword == <<"a", "l", "f", "s", "l">>
ArticleKeyword == <<"a", "l", "m", "a", "d", "t">>
Bold == <<"*", "*">>
MinGeneralLen == 10

\* index of the first ")" of s, 0 if there is none
RECURSIVE FirstClose(_, _)
FirstClose(s, i) ==
    IF i > Len(s) THEN 0 ELSE IF s[i] = ")" THEN i ELSE FirstClose(s, i + 1)

NoMatch == [matched |-> FALSE, label |-> <<>>]

\* re.match(r'^(?:\*\*)?<article keyword> \(([^)]+)\)(?:\*\*)?', line)
ArticleMatch(line) ==
    LET rest == IF StartsWith(line, Bold) THEN SubSeq(line, 3, Len(line)) ELSE line
        head == ArticleKeyword \o <<" ", "(">>
        body == SubSeq(rest, Len(head) + 1, Len(rest))
        close == FirstClose(body, 1)
    IN IF StartsWith(rest, head) /\ close >= 2
       THEN [matched |-> TRUE, label |-> SubSeq(body, 1, close - 1)]
       ELSE NoMatch

\* a line that re.split(r'^## Page (\d+)', ..., flags=re.MULTILINE) splits at
IsPageMarker(line) ==
    /\ StartsWith(line, PageMarker)
    /\ DigitRun(SubSeq(line, Len(PageMarker) + 1, Len(line))) >= 1

MarkerNumber(line) ==
    LET rest == SubSeq(line, Len(PageMarker) + 1, Len(line))
    IN ToInt(SubSeq(rest, 1, DigitRun(rest)))

\* what follows the digits on the marker line belongs to the page's text
MarkerRest(line) ==
    LET rest == SubSeq(line, Len(PageMarker) + 1, Len(line))
    IN SubSeq(rest, DigitRun(rest) + 1, Len(rest))

(***************************************************************************)
(* Segmenter: parse_markdown_document / parse_markdown_document_enhanced   *)
(***************************************************************************)
\* NULL of an integer column, None of an Optional[int]
Null == -1

IsBlank(line) == Strip(line) = <<>>

RECURSIVE DropLeadingBlank(_)
DropLeadingBlank(lines) ==
    IF lines # <<>> /\ IsBlank(Head(lines)) THEN DropLeadingBlank(Tail(lines)) ELSE lines

RECURSIVE DropTrailingBlank(_)
DropTrailingBlank(lines) ==
    IF lines # <<>> /\ IsBlank(lines[Len(lines)])
    THEN DropTrailingBlank(SubSeq(lines, 1, Len(lines) - 1))
    ELSE lines

\* text.strip().split('\n') of a text given as its lines
StripText(lines) ==
    LET kept == DropTrailingBlank(DropLeadingBlank(lines))
        n == Len(kept)
    IN IF n = 0 THEN << <<>> >>
       ELSE [i \in 1..n |->
                IF i = 1 /\ i = n THEN Strip(kept[i])
                ELSE IF i = 1 THEN LStrip(kept[i])
                ELSE IF i = n THEN RStrip(kept[i])
                ELSE kept[i]]

\* the lines of `lines` from index i up to the next page marker
RECURSIVE UntilMarker(_, _)
UntilMarker(lines, i) ==
    IF i > Len(lines) \/ IsPageMarker(lines[i]) THEN <<>>
    ELSE <<lines[i]>> \o UntilMarker(lines, i + 1)

\* re.split(r'^## Page (\d+)', content, flags=re.MULTILINE), read in pairs:
\* the page number after each marker and the stripped text that follows it
RECURSIVE SplitPages(_, _)
SplitPages(lines, i) ==
    IF i > Len(lines) THEN <<>>
    ELSE IF IsPageMarker(lines[i])
         THEN <<[page_number |-> MarkerNumber(lines[i]),
                 content |-> StripText(<<MarkerRest(lines[i])>> \o UntilMarker(lines, i + 1))]>>
              \o SplitPages(lines, i + 1)
         ELSE SplitPages(lines, i + 1)

\* the article that is open at the article marker or at the end of the page
ArticleUnit(st, page_num, document_name) ==
    [id |-> st.article_id + 1,
     document_name |-> document_name,
     page_number |-> page_num,
     chapter |-> st.chapter,
     section |-> st.section,
     article_number |-> st.number,
     title |-> st.title,
     content |-> st.content,
     article_type |-> "article",
     position_in_page |-> st.position]

\* the general content recorded at position 0 whatever its line
GeneralUnitAtTop(st, line, line_idx, page_num, document_name) ==
    [id |-> st.article_id + 1,
     document_name |-> document_name,
     page_number |-> page_num,
     chapter |-> st.chapter,
     section |-> st.section,
     article_number |-> <<>>,
     title |-> <<>>,
     content |-> <<line>>,
     article_type |-> "general",
     position_in_page |-> 0]

GeneralUnit(st, line, line_idx, page_num, document_name) ==
    [id |-> st.article_id + 1,
     document_name |-> document_name,
     page_number |-> page_num,
     chapter |-> st.chapter,
     section |-> st.section,
     article_number |-> <<>>,
     title |-> <<>>,
     content |-> <<line>>,
     article_type |-> "general",
     position_in_page |-> line_idx]

\* the same iteration with `len(line) >= 10` for the general content
ScanLineAtLeast(st, line_idx, raw, page_num, document_name) ==
    LET line == Strip(raw)
        m == ArticleMatch(line)
    IN IF line = <<>> THEN st
       ELSE IF StartsWith(line, ChapterKeyword) THEN [st EXCEPT !.chapter = line]
       ELSE IF StartsWith(line, SectionKeyword) THEN [st EXCEPT !.section = line]
       ELSE IF m.matched
            THEN LET closed ==
                        IF st.in_article /\ st.content # <<>>
                        THEN [st EXCEPT !.article_id = @ + 1,
                                        !.units = Append(@, ArticleUnit(st, page_num, document_name))]
                        ELSE st
                 IN [closed EXCEPT !.number = m.label,
                                   !.title = <<>>,
                                   !.content = <<>>,
                                   !.in_article = TRUE,
                                   !.position = line_idx]
       ELSE IF st.in_article THEN [st EXCEPT !.content = Append(@, line)]
       ELSE IF Len(line) >= MinGeneralLen
            THEN [st EXCEPT !.article_id = @ + 1,
                            !.units = Append(@, GeneralUnit(st, line, line_idx, page_num, document_name))]
       ELSE st

\* one iteration of `for line_idx, line in enumerate(lines)`
ScanLine(st, line_idx, raw, page_num, document_name) ==
    LET line == Strip(raw)
        m == ArticleMatch(line)
    IN IF line = <<>> THEN st
       ELSE IF StartsWith(line, ChapterKeyword) THEN [st EXCEPT !.chapter = line]
       ELSE IF StartsWith(line, SectionKeyword) THEN [st EXCEPT !.section = line]
       ELSE IF m.matched
            THEN LET closed ==
                        IF st.in_article /\ st.content # <<>>
                        THEN [st EXCEPT !.article_id = @ + 1,
                                        !.units = Append(@, ArticleUnit(st, page_num, document_name))]
                        ELSE st
                 IN [closed EXCEPT !.number = m.label,
                                   !.title = <<>>,
                                   !.content = <<>>,
                                   !.in_article = TRUE,
                                   !.position = line_idx]
       ELSE IF st.in_article THEN [st EXCEPT !.content = Append(@, line)]
       ELSE IF Len(line) > MinGeneralLen
            THEN [st EXCEPT !.article_id = @ + 1,
                            !.units = Append(@, GeneralUnit(st, line, line_idx, page_num, document_name))]
       ELSE st

RECURSIVE ScanLines(_, _, _, _, _)
ScanLines(st, lines, i, page_num, document_name) ==
    IF i > Len(lines) THEN st
    ELSE ScanLines(ScanLine(st, i - 1, lines[i], page_num, document_name),
                   lines, i + 1, page_num, document_name)

\* the page loop also empties current_chapter and current_section
OpenPageResetLabels(st) ==
    [st EXCEPT !.content = <<>>, !.number = <<>>, !.title = <<>>,
               !.in_article = FALSE, !.position = 0,
               !.chapter = <<>>, !.section = <<>>]

\* the per-page variables at the top of the page loop: no article is open
OpenPage(st) ==
    [st EXCEPT !.content = <<>>, !.number = <<>>, !.title = <<>>,
               !.in_article = FALSE, !.position = 0]

\* the page loop without the block after the lines of the page
ClosePageDropsArticle(st, page_num, document_name) == st

\* after the lines of the page: the article that is still open is emitted
ClosePage(st, page_num, document_name) ==
    IF st.in_article /\ st.content # <<>>
    THEN [st EXCEPT !.article_id = @ + 1,
                    !.units = Append(@, ArticleUnit(st, page_num, document_name))]
    ELSE st

\* the body of `for i in range(1, len(page_sections), 2)` for one page
ScanPage(st, page, document_name) ==
    ClosePage(ScanLines(OpenPage(st), page.content, 1, page.page_number, document_name),
              page.page_number, document_name)

RECURSIVE ScanPages(_, _, _, _)
ScanPages(st, pgs, i, document_name) ==
    IF i > Len(pgs) THEN st
    ELSE ScanPages(ScanPage(st, pgs[i], document_name), pgs, i + 1, document_name)

SegmenterStart ==
    [chapter |-> <<>>, section |-> <<>>, article_id |-> 0, units |-> <<>>,
     content |-> <<>>, number |-> <<>>, title |-> <<>>, in_article |-> FALSE,
     position |-> 0]

\* parse_markdown_document_enhanced on decoded text: (pages_content, articles)
parse_markdown_document_enhanced(lines, document_name) ==
    LET pgs == SplitPages(lines, 1)
    IN [pages_content |-> [i \in 1..Len(pgs) |->
                              [page_number |-> pgs[i].page_number,
                               content |-> pgs[i].content,
                               document_name |-> document_name]],
        articles |-> ScanPages(SegmenterStart, pgs, 1, document_name).units]

\* parse_markdown_document on decoded text: the articles only, which carry no
\* position within the page
parse_markdown_document(lines, document_name) ==
    LET units == ScanPages(SegmenterStart, SplitPages(lines, 1), 1, document_name).units
    IN [i \in 1..Len(units) |-> [units[i] EXCEPT !.position_in_page = Null]]

(***************************************************************************)
(* Full-text index: the FTS5 tables articles_fts and pages_fts             *)
(***************************************************************************)
\* the characters the tokenizer of the index keeps (letters and digits);
\* every other character separates tokens
IsTokenChar(c) == c \in Letters \/ c \in Upper \/ c \in Digits

\* tokens of a string, lower-cased, in order
RECURSIVE Tokens(_, _)
Tokens(s, cur) ==
    IF s = <<>> THEN (IF cur = <<>> THEN <<>> ELSE <<cur>>)
    ELSE IF IsTokenChar(Head(s)) THEN Tokens(Tail(s), Append(cur, LowerChar(Head(s))))
    ELSE (IF cur = <<>> THEN <<>> ELSE <<cur>>) \o Tokens(Tail(s), <<>>)

Tokenize(s) == Tokens(s, <<>>)

\* tokens of a text of several lines ('\n' separates tokens)
RECURSIVE TokenizeText(_)
TokenizeText(lines) ==
    IF lines = <<>> THEN <<>> ELSE Tokenize(Head(lines)) \o TokenizeText(Tail(lines))

\* the rowid FTS5 gives a row inserted without one: one more than the largest
NextFtsRowid(fts) ==
    IF fts = {} THEN 1
    ELSE 1 + (CHOOSE m \in {r.rowid : r \in fts} : \A r \in fts : r.rowid <= m)

\* (SELECT name FROM documents WHERE id = new.document_id): the tokens of the
\* name, none when no such document exists (the value is NULL)
DocumentNameTokens(documents, document_id) ==
    IF \E d \in documents : d.id = document_id
    THEN Tokenize((CHOOSE d \in documents : d.id = document_id).name)
    ELSE <<>>

\* trigger articles_ai of LegalSearchEngine: the indexed columns of one article
BasicArticleColumns(documents, a) ==
    <<Tokenize(ToStr(a.id)),
      DocumentNameTokens(documents, a.document_id),
      Tokenize(a.chapter),
      Tokenize(a.section),
      Tokenize(a.article_number),
      Tokenize(a.title),
      TokenizeText(a.content)>>

\* trigger articles_ai of EnhancedLegalSearchEngine
EnhancedArticleColumns(documents, a) ==
    <<Tokenize(ToStr(a.id)),
      DocumentNameTokens(documents, a.document_id),
      Tokenize(ToStr(a.page_number)),
      Tokenize(a.chapter),
      Tokenize(a.section),
      Tokenize(a.article_number),
      Tokenize(a.title),
      TokenizeText(a.content)>>

\* trigger pages_ai
PageColumns(documents, p) ==
    <<Tokenize(ToStr(p.id)),
      DocumentNameTokens(documents, p.document_id),
      Tokenize(ToStr(p.page_number)),
      TokenizeText(p.content)>>

(***************************************************************************)
(* The database of one engine: tables, sqlite_sequence and the two indexes *)
(***************************************************************************)
EmptyDb ==
    [documents |-> {}, pages |-> {}, articles |-> {},
     articles_fts |-> {}, pages_fts |-> {},
     seq |-> [documents |-> 0, pages |-> 0, articles |-> 0]]

\* INSERT OR REPLACE INTO documents (name, title, file_path, pages_count):
\* a row of the same name is deleted and the new row takes a fresh id
UpsertDocument(db, name, title, file_path) ==
    LET id == db.seq.documents + 1
        row == [id |-> id, name |-> name, title |-> title,
                file_path |-> file_path, pages_count |-> 0]
    IN [db EXCEPT !.documents = {d \in @ : d.name # name} \cup {row},
                  !.seq.documents = id]

\* INSERT INTO pages (document_id, page_number, content) with trigger pages_ai
InsertPageRow(db, document_id, page) ==
    LET id == db.seq.pages + 1
        row == [id |-> id, document_id |-> document_id,
                page_number |-> page.page_number, content |-> page.content]
        posting == [rowid |-> NextFtsRowid(db.pages_fts), page_id |-> id,
                    cols |-> PageColumns(db.documents, row)]
    IN [db EXCEPT !.pages = @ \cup {row},
                  !.pages_fts = @ \cup {posting},
                  !.seq.pages = id]

\* UNIQUE(document_id, page_number) of table pages
PageConflict(db, document_id, page_number) ==
    \E p \in db.pages : p.document_id = document_id /\ p.page_number = page_number

\* INSERT INTO articles (...) without the trigger articles_ai: no posting
InsertArticleRowNoPosting(db, enhanced, document_id, page_id, article) ==
    LET id == db.seq.articles + 1
        row == [id |-> id, document_id |-> document_id, page_id |-> page_id,
                page_number |-> article.page_number,
                chapter |-> article.chapter, section |-> article.section,
                article_number |-> article.article_number,
                title |-> article.title, content |-> article.content,
                article_type |-> article.article_type,
                position_in_page |-> article.position_in_page]
    IN [db EXCEPT !.articles = @ \cup {row},
                  !.seq.articles = id]

\* INSERT INTO articles (...) with trigger articles_ai
InsertArticleRow(db, enhanced, document_id, page_id, article) ==
    LET id == db.seq.articles + 1
        row == [id |-> id, document_id |-> document_id, page_id |-> page_id,
                page_number |-> article.page_number,
                chapter |-> article.chapter, section |-> article.section,
                article_number |-> article.article_number,
                title |-> article.title, content |-> article.content,
                article_type |-> article.article_type,
                position_in_page |-> article.position_in_page]
        posting == [rowid |-> NextFtsRowid(db.articles_fts), article_id |-> id,
                    cols |-> IF enhanced
                             THEN EnhancedArticleColumns(db.documents, row)
                             ELSE BasicArticleColumns(db.documents, row)]
    IN [db EXCEPT !.articles = @ \cup {row},
                  !.articles_fts = @ \cup {posting},
                  !.seq.articles = id]

\* UPDATE documents SET pages_count = ? WHERE id = ?
SetPagesCount(db, document_id, max_page) ==
    [db EXCEPT !.documents =
        {IF d.id = document_id THEN [d EXCEPT !.pages_count = max_page] ELSE d : d \in @}]

\* max([...]) if ... else 1
MaxOfOrOne(nums) == IF nums = {} THEN 1 ELSE CHOOSE m \in nums : \A n \in nums : n <= m

\* max([...]) if ... else 0
MaxOf(nums) == IF nums = {} THEN 0 ELSE CHOOSE m \in nums : \A n \in nums : n <= m

(***************************************************************************)
(* Queries: the MATCH expression of the index                              *)
(***************************************************************************)
\* the characters query strings are drawn from: two letters, the blank, a
\* punctuation character and the string quote of the query syntax
QueryChars == {"a", "b", " ", ".", "\""}

\* a character that may occur in a bare word of a MATCH expression
IsBareword(c) == c \in Letters \/ c \in Upper \/ c \in Digits \/ c = "_"

RECURSIVE BarewordEnd(_, _)
BarewordEnd(q, i) ==
    IF i <= Len(q) /\ IsBareword(q[i]) THEN BarewordEnd(q, i + 1) ELSE i

\* the quoted string that opens before position i: its text and the position
\* after its closing quote ("" inside the string is one quote character);
\* close = 0 when the string is not terminated
RECURSIVE QuotedString(_, _, _)
QuotedString(q, i, text) ==
    IF i > Len(q) THEN [close |-> 0, text |-> text]
    ELSE IF q[i] = "\""
         THEN IF i + 1 <= Len(q) /\ q[i + 1] = "\""
              THEN QuotedString(q, i + 2, Append(text, "\""))
              ELSE [close |-> i + 1, text |-> text]
         ELSE QuotedString(q, i + 1, Append(text, q[i]))

SyntaxError == [ok |-> FALSE, phrases |-> <<>>]

\* the phrases of a MATCH expression made of bare words and quoted strings
\* (an implicit AND of phrases); a character outside the query syntax or an
\* unterminated string is an error of the storage engine
RECURSIVE MatchPhrases(_, _, _)
MatchPhrases(q, i, phrases) ==
    IF i > Len(q) THEN [ok |-> TRUE, phrases |-> phrases]
    ELSE IF IsSpace(q[i]) THEN MatchPhrases(q, i + 1, phrases)
    ELSE IF q[i] = "\""
         THEN LET str == QuotedString(q, i + 1, <<>>)
              IN IF str.close = 0 THEN SyntaxError
                 ELSE MatchPhrases(q, str.close, Append(phrases, Tokenize(str.text)))
    ELSE IF IsBareword(q[i])
         THEN LET e == BarewordEnd(q, i)
              IN MatchPhrases(q, e, Append(phrases, Tokenize(SubSeq(q, i, e - 1))))
    ELSE SyntaxError

\* an expression without any phrase is a syntax error
ParseMatch(q) ==
    LET r == MatchPhrases(q, 1, <<>>)
    IN IF r.ok /\ r.phrases = <<>> THEN SyntaxError ELSE r

\* number of places where the phrase occurs in one column
PhraseHits(col, phrase) ==
    Cardinality({i \in 1..(Len(col) - Len(phrase) + 1) :
                    SubSeq(col, i, i + Len(phrase) - 1) = phrase})

RECURSIVE SumSeq(_)
SumSeq(nums) == IF nums = <<>> THEN 0 ELSE Head(nums) + SumSeq(Tail(nums))

\* term frequency of a phrase in an indexed row, over all columns
TermFrequency(row, phrase) ==
    SumSeq([c \in 1..Len(row.cols) |-> PhraseHits(row.cols[c], phrase)])

\* phrases without a token are dropped from the expression
NonEmptyPhrases(phrases) == SelectSeq(phrases, LAMBDA ph : ph # <<>>)

\* articles_fts MATCH ?
Matches(row, phrases) ==
    LET kept == NonEmptyPhrases(phrases)
    IN /\ kept # <<>>
       /\ \A k \in 1..Len(kept) : TermFrequency(row, kept[k]) > 0

\* number of tokens of an indexed row
RowLength(row) == SumSeq([c \in 1..Len(row.cols) |-> Len(row.cols[c])])

\* number of tokens of all rows of an index
RECURSIVE TotalLength(_)
TotalLength(fts) ==
    IF fts = {} THEN 0
    ELSE LET r == CHOOSE x \in fts : TRUE
         IN RowLength(r) + TotalLength(fts \ {r})

RankScale == 1000

\* the rank column of the index (smaller is better).  The storage engine
\* computes bm25 with k1 = 1.2 and b = 0.75; the model keeps its dependence
\* on term frequency, row length and average row length in integer
\* arithmetic and leaves out the per-phrase idf weight.
Rank(fts, row, phrases) ==
    LET kept == NonEmptyPhrases(phrases)
        n == Cardinality(fts)
        total == TotalLength(fts)
        dl == RowLength(row)
        score(tf) == (RankScale * 10 * tf * total)
                         \div (10 * tf * total + 3 * total + 9 * dl * n)
    IN 0 - SumSeq([k \in 1..Len(kept) |-> score(TermFrequency(row, kept[k]))])

\* the same statement with JOIN documents d ON d.name = <the document_name
\* column of the posting> in place of the join on the document id
MatchedRowsByName(db, phrases) ==
    LET hits == {f \in db.articles_fts : Matches(f, phrases)}
        joined == {f \in hits :
                     \E a \in db.articles :
                        a.id = f.rowid /\ \E d \in db.documents : Tokenize(d.name) = f.cols[2]}
    IN {LET a == CHOOSE x \in db.articles : x.id = f.rowid
            d == CHOOSE x \in db.documents : Tokenize(x.name) = f.cols[2]
        IN [id |-> a.id, document_id |-> a.document_id, page_id |-> a.page_id,
            document_name |-> d.name, document_title |-> d.title,
            page_number |-> a.page_number, chapter |-> a.chapter,
            section |-> a.section, article_number |-> a.article_number,
            title |-> a.title, content |-> a.content,
            article_type |-> a.article_type,
            position_in_page |-> a.position_in_page,
            rank |-> Rank(db.articles_fts, f, phrases)] : f \in joined}

\* FROM articles_fts JOIN articles a ON articles_fts.rowid = a.id
\*                   JOIN documents d ON a.document_id = d.id
\* WHERE articles_fts MATCH ?
MatchedRows(db, phrases) ==
    LET hits == {f \in db.articles_fts : Matches(f, phrases)}
        joined == {f \in hits :
                     \E a \in db.articles :
                        a.id = f.rowid /\ \E d \in db.documents : d.id = a.document_id}
    IN {LET a == CHOOSE x \in db.articles : x.id = f.rowid
            d == CHOOSE x \in db.documents : x.id = a.document_id
        IN [id |-> a.id, document_id |-> a.document_id, page_id |-> a.page_id,
            document_name |-> d.name, document_title |-> d.title,
            page_number |-> a.page_number, chapter |-> a.chapter,
            section |-> a.section, article_number |-> a.article_number,
            title |-> a.title, content |-> a.content,
            article_type |-> a.article_type,
            position_in_page |-> a.position_in_page,
            rank |-> Rank(db.articles_fts, f, phrases)] : f \in joined}

\* ORDER BY articles_fts.rank: every order of the rows that is ascending in
\* rank; the statement names no further sort key, so rows of equal rank may
\* come in any order
RECURSIVE RankOrders(_)
RankOrders(rows) ==
    IF rows = {} THEN {<<>>}
    ELSE UNION {{<<r>> \o rest : rest \in RankOrders(rows \ {r})} :
                   r \in {x \in rows : \A y \in rows : x.rank <= y.rank}}

\* the cap keeps the last rows of the order in place of the first
LimitFromEnd(rows, limit) ==
    IF limit < 0 \/ limit >= Len(rows) THEN rows
    ELSE SubSeq(rows, Len(rows) - limit + 1, Len(rows))

\* LIMIT ? (a negative limit is no limit)
Limit(rows, limit) ==
    IF limit < 0 \/ limit >= Len(rows) THEN rows ELSE SubSeq(rows, 1, limit)

(***************************************************************************)
(* Highlighting: _highlight_matches                                        *)
(***************************************************************************)
\* f'**{word}**' of LegalSearchEngine
BasicOpen == <<"*", "*">>
BasicClose == <<"*", "*">>
\* f'<mark class="highlight">{word}</mark>' of EnhancedLegalSearchEngine
EnhancedOpen ==
    <<"<", "m", "a", "r", "k", " ", "c", "l", "a", "s", "s", "=", "\"",
      "h", "i", "g", "h", "l", "i", "g", "h", "t", "\"", ">">>
EnhancedClose == <<"<", "/", "m", "a", "r", "k", ">">>
MinWordLen == 2

\* str.split(): the maximal runs of non-blank characters
RECURSIVE Words(_, _)
Words(s, cur) ==
    IF s = <<>> THEN (IF cur = <<>> THEN <<>> ELSE <<cur>>)
    ELSE IF IsSpace(Head(s)) THEN (IF cur = <<>> THEN <<>> ELSE <<cur>>) \o Words(Tail(s), <<>>)
    ELSE Words(Tail(s), Append(cur, Head(s)))

Split(s) == Words(s, <<>>)

Lower(s) == [i \in 1..Len(s) |-> LowerChar(s[i])]

\* re.compile(re.escape(word), re.IGNORECASE).sub(open + word + close, line)
RECURSIVE SubWord(_, _, _, _, _)
SubWord(line, i, word, open, close) ==
    IF i > Len(line) THEN <<>>
    ELSE IF /\ i + Len(word) - 1 <= Len(line)
            /\ Lower(SubSeq(line, i, i + Len(word) - 1)) = Lower(word)
         THEN open \o word \o close \o SubWord(line, i + Len(word), word, open, close)
         ELSE <<line[i]>> \o SubWord(line, i + 1, word, open, close)

\* `if len(word) >= 2:`
LongEnoughAtLeast(word) == Len(word) >= MinWordLen

\* `if len(word) > 2:`, the words that are highlighted
LongEnough(word) == Len(word) > MinWordLen

RECURSIVE HighlightWords(_, _, _, _, _)
HighlightWords(text, words, k, open, close) ==
    IF k > Len(words) THEN text
    ELSE HighlightWords(
            IF LongEnough(words[k])
            THEN [l \in 1..Len(text) |-> SubWord(text[l], 1, words[k], open, close)]
            ELSE text,
            words, k + 1, open, close)

\* _highlight_matches(text, query) on a text given as its lines
highlight_matches(text, query, enhanced) ==
    HighlightWords(text, Split(query), 1,
                   IF enhanced THEN EnhancedOpen ELSE BasicOpen,
                   IF enhanced THEN EnhancedClose ELSE BasicClose)

(***************************************************************************)
(* Read operations                                                         *)
(***************************************************************************)
RaisedOperationalError == [status |-> "OperationalError", results |-> <<>>]

\* the result lists search_enhanced(query, limit) may return
search_enhanced(db, query, limit) ==
    LET m == ParseMatch(query)
    IN IF ~m.ok THEN {RaisedOperationalError}
       ELSE {[status |-> "ok",
              results |-> [i \in 1..Len(Limit(ord, limit)) |->
                  [row |-> Limit(ord, limit)[i],
                   highlighted_content |->
                       highlight_matches(Limit(ord, limit)[i].content, query, TRUE)]]] :
                ord \in RankOrders(MatchedRows(db, m.phrases))}

\* the result lists search(query, limit) of LegalSearchEngine may return
search(db, query, limit) ==
    LET clean_query == Strip(query)
        m == ParseMatch(clean_query)
    IN IF clean_query = <<>> THEN {[status |-> "ok", results |-> <<>>]}
       ELSE IF ~m.ok THEN {RaisedOperationalError}
       ELSE {[status |-> "ok",
              results |-> [i \in 1..Len(Limit(ord, limit)) |->
                  [row |-> Limit(ord, limit)[i],
                   highlighted_content |->
                       highlight_matches(Limit(ord, limit)[i].content, clean_query, FALSE)]]] :
                ord \in RankOrders(MatchedRows(db, m.phrases))}

\* search_documents of the web applications, in front of search and of
\* search_enhanced
search_documents(db, query, limit, enhanced) ==
    IF Strip(query) = <<>> THEN {[status |-> "HTTP 400", results |-> <<>>]}
    ELSE IF enhanced THEN search_enhanced(db, query, limit)
    ELSE search(db, query, limit)

\* get_statistics; LegalSearchEngine has no table of pages
get_statistics(db, enhanced) ==
    [documents_count |-> Cardinality(db.documents),
     pages_count |-> IF enhanced THEN Cardinality(db.pages) ELSE Null,
     articles_count |-> Cardinality(db.articles),
     articles_by_type |->
        [t \in {a.article_type : a \in db.articles} |->
            Cardinality({a \in db.articles : a.article_type = t})]]

NoPage == [found |-> FALSE]

\* get_page_content(document_name, page_number)
get_page_content(db, document_name, page_number) ==
    LET rows == {x \in db.pages \X db.documents :
                    /\ x[1].document_id = x[2].id
                    /\ x[2].name = document_name
                    /\ x[1].page_number = page_number}
    IN IF rows = {} THEN NoPage
       ELSE LET x == CHOOSE y \in rows : \A z \in rows : y[1].id <= z[1].id
            IN [found |-> TRUE, id |-> x[1].id, page_number |-> x[1].page_number,
                content |-> x[1].content, document_name |-> x[2].name,
                document_title |-> x[2].title]

\* get_page_with_highlighted_text(document_name, page_number, search_query)
get_page_with_highlighted_text(db, document_name, page_number, search_query) ==
    LET page_data == get_page_content(db, document_name, page_number)
    IN IF ~page_data.found THEN [found |-> FALSE, page |-> NoPage, highlighted_content |-> <<>>]
       ELSE [found |-> TRUE, page |-> page_data,
             highlighted_content |->
                IF search_query # <<>>
                THEN highlight_matches(page_data.content, search_query, TRUE)
                ELSE page_data.content]

(***************************************************************************)
(* Files on disk                                                           *)
(***************************************************************************)
PM1 == PageMarker \o <<"1">>
PM2 == PageMarker \o <<"2">>
GenA == <<"a", " ", "a", " ", "a", " ", "a", " ", "a", " ", "a">>
GenB == <<"b", " ", "b", " ", "b", " ", "b", " ", "b", " ", "b">>
ChapterLine == ChapterKeyword \o <<" ", "a">>
SectionLine == SectionKeyword \o <<" ", "b">>
ArticleLine == ArticleKeyword \o <<" ", "(", "1", ")">>
BodyLine == <<"a", " ", "b">>
\* a line of words of one, two and three letters, one with a capital
WordsLine == <<"a", "b", " ", "a", "b", "c", " ", "A", "b", "c", " ", "d">>

NoFile == [exists |-> FALSE, utf8 |-> FALSE, lines |-> <<>>]
TextFile(lines) == [exists |-> TRUE, utf8 |-> TRUE, lines |-> lines]

\* the files index_document is called with: path |-> content
FileSystem ==
    [fa |-> TextFile(<<PM1, GenA>>),
     fb |-> TextFile(<<PM1, GenB>>),
     two |-> TextFile(<<PM1, GenA, PM2, GenA>>),
     law |-> TextFile(<<PM1, ChapterLine, SectionLine, ArticleLine, BodyLine>>),
     dup |-> TextFile(<<PM1, GenA, PM1, GenB>>),
     gap |-> TextFile(<<PM1, GenA, PM2, BodyLine>>),
     nomark |-> TextFile(<<GenA>>),
     words |-> TextFile(<<PM1, WordsLine>>),
     pre |-> TextFile(<<GenB, ArticleLine, BodyLine, PM1, GenA>>),
     bad |-> [exists |-> TRUE, utf8 |-> FALSE, lines |-> <<>>],
     missing |-> NoFile]

Paths == {"fa", "fb", "two", "law", "dup", "bad", "missing"}
Names == {<<"d">>, <<"e">>}
Titles == {<<"t">>}
Threads == {"t1", "t2"}

\* what the two segmenters return for each file that can be read
ParsedEnhanced ==
    [f \in DOMAIN FileSystem, n \in Names |-> parse_markdown_document_enhanced(FileSystem[f].lines, n)]
ParsedBasic ==
    [f \in DOMAIN FileSystem, n \in Names |-> parse_markdown_document(FileSystem[f].lines, n)]

(***************************************************************************)
(* index_document / index_document_enhanced, statement by statement        *)
(***************************************************************************)
IdleCall ==
    [pc |-> "idle", file_path |-> "none", document_name |-> <<>>, title |-> <<>>,
     document_id |-> Null, pages_content |-> <<>>, articles |-> <<>>,
     page_ids |-> <<>>, i |-> 0, outcome |-> "none", returned |-> Null,
     repeat |-> FALSE, overlaps |-> {}, clean |-> TRUE]

\* the call ends: by return (len(articles)) or by an exception
EndCall(c, outcome, returned) ==
    [c EXCEPT !.pc = "idle", !.pages_content = <<>>, !.articles = <<>>,
              !.page_ids = <<>>, !.i = 0, !.outcome = outcome,
              !.returned = returned]

\* where the call continues after the insert loops that are left to run
AfterParse(c, enhanced) ==
    IF enhanced /\ c.pages_content # <<>> THEN [c EXCEPT !.pc = "insert_page", !.i = 1]
    ELSE IF c.articles # <<>> THEN [c EXCEPT !.pc = "insert_article", !.i = 1]
    ELSE [c EXCEPT !.pc = "update_count", !.i = 0]

\* INSERT OR REPLACE INTO documents runs before os.path.exists is asked
BeginIndexInsertFirst(db, enhanced, file_path, document_name, title) ==
    LET c == [IdleCall EXCEPT !.file_path = file_path,
                              !.document_name = document_name, !.title = title]
        ndb == UpsertDocument(db, document_name, title, file_path)
    IN IF ~FileSystem[file_path].exists
       THEN [db |-> ndb, c |-> EndCall(c, "FileNotFoundError", Null)]
       ELSE [db |-> ndb,
             c |-> [c EXCEPT !.pc = "delete_articles",
                             !.document_id = ndb.seq.documents]]

\* os.path.exists, then INSERT OR REPLACE INTO documents; cursor.lastrowid
BeginIndex(db, enhanced, file_path, document_name, title) ==
    LET c == [IdleCall EXCEPT !.file_path = file_path,
                              !.document_name = document_name, !.title = title]
        ndb == UpsertDocument(db, document_name, title, file_path)
    IN IF ~FileSystem[file_path].exists
       THEN [db |-> db, c |-> EndCall(c, "FileNotFoundError", Null)]
       ELSE [db |-> ndb,
             c |-> [c EXCEPT !.pc = "delete_articles",
                             !.document_id = ndb.seq.documents]]

\* DELETE FROM articles WHERE document_id = ?  Trigger articles_ad runs for a
\* deleted row and reads column article_id of the index, which the content
\* table does not have: the statement fails and deletes nothing.
DeleteArticlesStep(db, enhanced, c) ==
    IF \E a \in db.articles : a.document_id = c.document_id
    THEN [db |-> db, c |-> EndCall(c, "OperationalError", Null)]
    ELSE [db |-> db,
          c |-> [c EXCEPT !.pc = IF enhanced THEN "delete_pages" ELSE "parse"]]

\* DELETE FROM pages WHERE document_id = ?  (trigger pages_ad, likewise)
DeletePagesStep(db, enhanced, c) ==
    IF \E p \in db.pages : p.document_id = c.document_id
    THEN [db |-> db, c |-> EndCall(c, "OperationalError", Null)]
    ELSE [db |-> db, c |-> [c EXCEPT !.pc = "parse"]]

\* open(file_path, encoding='utf-8').read() and the segmenter
ParseStep(db, enhanced, c) ==
    LET file == FileSystem[c.file_path]
        parsed == ParsedEnhanced[c.file_path, c.document_name]
    IN IF ~file.utf8 THEN [db |-> db, c |-> EndCall(c, "UnicodeDecodeError", Null)]
       ELSE [db |-> db,
             c |-> AfterParse(
                     IF enhanced
                     THEN [c EXCEPT !.pages_content = parsed.pages_content,
                                    !.articles = parsed.articles]
                     ELSE [c EXCEPT !.articles = ParsedBasic[c.file_path, c.document_name]],
                     enhanced)]

\* page_ids.get(page_number): the id stored last for the number, None if none
RECURSIVE PageIdOf(_, _)
PageIdOf(page_ids, page_number) ==
    IF page_ids = <<>> THEN Null
    ELSE IF page_ids[Len(page_ids)].page_number = page_number
         THEN page_ids[Len(page_ids)].id
         ELSE PageIdOf(SubSeq(page_ids, 1, Len(page_ids) - 1), page_number)

\* one iteration of `for page in pages_content`
InsertPageStep(db, enhanced, c) ==
    LET page == c.pages_content[c.i]
        ndb == InsertPageRow(db, c.document_id, page)
        more == [c EXCEPT !.page_ids = Append(@, [page_number |-> page.page_number,
                                                    id |-> ndb.seq.pages])]
    IN IF PageConflict(db, c.document_id, page.page_number)
       THEN [db |-> db, c |-> EndCall(c, "IntegrityError", Null)]
       ELSE [db |-> ndb,
             c |-> IF c.i < Len(c.pages_content) THEN [more EXCEPT !.i = @ + 1]
                   ELSE IF c.articles # <<>> THEN [more EXCEPT !.pc = "insert_article", !.i = 1]
                   ELSE [more EXCEPT !.pc = "update_count", !.i = 0]]

\* one iteration of `for article in articles`
InsertArticleStep(db, enhanced, c) ==
    LET article == c.articles[c.i]
        page_id == IF enhanced THEN PageIdOf(c.page_ids, article.page_number) ELSE Null
    IN [db |-> InsertArticleRow(db, enhanced, c.document_id, page_id, article),
        c |-> IF c.i < Len(c.articles) THEN [c EXCEPT !.i = @ + 1]
              ELSE [c EXCEPT !.pc = "update_count", !.i = 0]]

\* max_page and UPDATE documents SET pages_count: the enhanced engine takes
\* the maximum over the pages, the basic engine over the articles
UpdateCountStep(db, enhanced, c) ==
    LET max_page ==
            IF enhanced
            THEN MaxOf({c.pages_content[k].page_number : k \in 1..Len(c.pages_content)})
            ELSE MaxOf({c.articles[k].page_number : k \in 1..Len(c.articles)})
    IN [db |-> SetPagesCount(db, c.document_id, max_page),
        c |-> [c EXCEPT !.pc = "commit"]]

\* self.conn.commit(); return len(articles)
CommitStep(db, enhanced, c) ==
    [db |-> db, c |-> EndCall(c, "ok", Len(c.articles))]

StepCall(db, enhanced, c) ==
    CASE c.pc = "delete_articles" -> DeleteArticlesStep(db, enhanced, c)
      [] c.pc = "delete_pages" -> DeletePagesStep(db, enhanced, c)
      [] c.pc = "parse" -> ParseStep(db, enhanced, c)
      [] c.pc = "insert_page" -> InsertPageStep(db, enhanced, c)
      [] c.pc = "insert_article" -> InsertArticleStep(db, enhanced, c)
      [] c.pc = "update_count" -> UpdateCountStep(db, enhanced, c)
      [] c.pc = "commit" -> CommitStep(db, enhanced, c)
      [] OTHER -> [db |-> db, c |-> c]

RECURSIVE RunCall(_, _)
RunCall(enhanced, r) ==
    IF r.c.pc = "idle" THEN r ELSE RunCall(enhanced, StepCall(r.db, enhanced, r.c))

\* a whole call that no other call interleaves with
index_document(db, enhanced, file_path, document_name, title) ==
    RunCall(enhanced, BeginIndex(db, enhanced, file_path, document_name, title))

(***************************************************************************)
(* State                                                                   *)
(***************************************************************************)
VARIABLES
    engine,     \* "basic": LegalSearchEngine, "enhanced": EnhancedLegalSearchEngine
    db,         \* the database as the engine's one connection sees it
    committed,  \* the database as of the last commit
    call,       \* per thread: the index_document call it is in
    snap,       \* per thread: the database when its call began
    expect,     \* per thread: the database its call leaves when it runs alone
    last_ok,    \* arguments of the call that returned last, NoArgs once a new call began
    calls,      \* number of index_document calls so far
    observed,   \* what the last read operation returned, if no statement ran since
    seg         \* the segmenter run that is followed line by line

vars == <<engine, db, committed, call, snap, expect, last_ok, calls, observed, seg>>

Enhanced == engine = "enhanced"

NoneObserved == [op |-> "none"]

NoArgs == [file_path |-> "none", document_name |-> <<>>, title |-> <<>>]

NoSegmenterRun == [phase |-> "none"]

Init ==
    /\ engine \in {"basic", "enhanced"}
    /\ db = EmptyDb
    /\ committed = EmptyDb
    /\ call = [t \in Threads |-> IdleCall]
    /\ snap = [t \in Threads |-> EmptyDb]
    /\ expect = [t \in Threads |-> EmptyDb]
    /\ last_ok = NoArgs
    /\ calls = 0
    /\ observed = NoneObserved
    /\ seg = NoSegmenterRun

Active == {t \in Threads : call[t].pc # "idle"}
AllIdle == Active = {}

Args(c) == [file_path |-> c.file_path, document_name |-> c.document_name, title |-> c.title]

(***************************************************************************)
(* Write operations                                                        *)
(***************************************************************************)
\* index_document(file_path, document_name, title) is called on thread t
Index(t, file_path, document_name, title) ==
    /\ call[t].pc = "idle"
    /\ calls < MaxCalls
    /\ LET r == BeginIndex(db, Enhanced, file_path, document_name, title)
       IN /\ db' = r.db
          /\ call' = [call EXCEPT ![t] =
                        [r.c EXCEPT !.repeat = (last_ok = Args(r.c)),
                                    !.overlaps = Active,
                                    !.clean = (calls = 0
                                               \/ (call[t].clean /\ call[t].outcome = "ok"))]]
    /\ snap' = [snap EXCEPT ![t] = db]
    /\ expect' = [expect EXCEPT ![t] =
                    index_document(db, Enhanced, file_path, document_name, title).db]
    /\ last_ok' = NoArgs
    /\ calls' = calls + 1
    /\ observed' = NoneObserved
    /\ UNCHANGED <<engine, committed, seg>>

\* the next statement of the call of thread t
Advance(t, pc) ==
    /\ call[t].pc = pc
    /\ LET r == StepCall(db, Enhanced, call[t])
       IN /\ db' = r.db
          /\ call' = [call EXCEPT ![t] = r.c]
    /\ observed' = NoneObserved
    /\ UNCHANGED <<engine, snap, expect, calls, seg>>

DeleteArticles(t) == Advance(t, "delete_articles") /\ UNCHANGED <<committed, last_ok>>

DeletePages(t) == Advance(t, "delete_pages") /\ UNCHANGED <<committed, last_ok>>

Parse(t) == Advance(t, "parse") /\ UNCHANGED <<committed, last_ok>>

InsertPage(t) == Advance(t, "insert_page") /\ UNCHANGED <<committed, last_ok>>

InsertArticle(t) == Advance(t, "insert_article") /\ UNCHANGED <<committed, last_ok>>

UpdateCount(t) == Advance(t, "update_count") /\ UNCHANGED <<committed, last_ok>>

\* commit makes everything the connection has written durable
Commit(t) ==
    /\ Advance(t, "commit")
    /\ committed' = db
    /\ last_ok' = Args(call[t])

(***************************************************************************)
(* Read operations on the same connection                                  *)
(***************************************************************************)
EngineSearch(d, query, limit) ==
    IF Enhanced THEN search_enhanced(d, query, limit) ELSE search(d, query, limit)

Search(query, limit) ==
    /\ \E r \in EngineSearch(db, query, limit) :
          observed' = [op |-> "search", query |-> query, limit |-> limit, result |-> r]
    /\ UNCHANGED <<engine, db, committed, call, snap, expect, last_ok, calls, seg>>

WebSearch(query, limit) ==
    /\ \E r \in search_documents(db, query, limit, Enhanced) :
          observed' = [op |-> "search_documents", query |-> query, limit |-> limit,
                       result |-> r]
    /\ UNCHANGED <<engine, db, committed, call, snap, expect, last_ok, calls, seg>>

Statistics ==
    /\ observed' = [op |-> "statistics", result |-> get_statistics(db, Enhanced)]
    /\ UNCHANGED <<engine, db, committed, call, snap, expect, last_ok, calls, seg>>

GetPage(document_name, page_number, search_query) ==
    /\ Enhanced
    /\ observed' =
          [op |-> "get_page", document_name |-> document_name, page_number |-> page_number,
           search_query |-> search_query,
           result |-> get_page_with_highlighted_text(db, document_name, page_number, search_query)]
    /\ UNCHANGED <<engine, db, committed, call, snap, expect, last_ok, calls, seg>>

\* reads do not change the database: a read is followed by the same read
\* again or by the next statement of a call
Fresh == observed = NoneObserved
Again(op, query, limit) ==
    /\ observed.op = op
    /\ observed.query = query
    /\ observed.limit = limit

(***************************************************************************)
(* Specifications                                                          *)
(***************************************************************************)
\* the queries, limits and pages the read operations are called with
ProbeQueries == {<<"a">>, <<"b">>, <<"a", " ", "b">>}
Limits == {1, 10}
PageNumbers == {1, 2}
HighlightTexts == {<<>>}

\* one caller indexes, call after call; reads come in at any time
Next ==
    \/ \E f \in Paths, n \in Names, ti \in Titles : AllIdle /\ Index("t1", f, n, ti)
    \/ DeleteArticles("t1")
    \/ DeletePages("t1")
    \/ Parse("t1")
    \/ InsertPage("t1")
    \/ InsertArticle("t1")
    \/ UpdateCount("t1")
    \/ Commit("t1")
    \/ \E q \in ProbeQueries, l \in Limits :
          (Fresh \/ Again("search", q, l)) /\ Search(q, l)
    \/ Fresh /\ Statistics
    \/ \E n \in Names, p \in PageNumbers, h \in HighlightTexts : Fresh /\ GetPage(n, p, h)

Spec == Init /\ [][Next]_vars

\* two callers index on the one connection at the same time, statement by
\* statement
ConcurrentPaths == {"fa", "fb", "two"}
ConcurrentNames == {<<"d">>}

NextConcurrent ==
    \/ \E t \in Threads, f \in ConcurrentPaths, n \in ConcurrentNames, ti \in Titles :
          Index(t, f, n, ti)
    \/ \E t \in Threads : DeleteArticles(t)
    \/ \E t \in Threads : DeletePages(t)
    \/ \E t \in Threads : Parse(t)
    \/ \E t \in Threads : InsertPage(t)
    \/ \E t \in Threads : InsertArticle(t)
    \/ \E t \in Threads : UpdateCount(t)
    \/ \E t \in Threads : Commit(t)

SpecConcurrent == Init /\ [][NextConcurrent]_vars

\* one caller indexes; search is called with every string of up to
\* MaxQueryLen characters, on the engine and through the web application
Queries == UNION {[1..n -> QueryChars] : n \in 0..MaxQueryLen}
QueryPaths == {"fa", "fb"}
QueryNames == {<<"d">>}
DefaultLimit == 10

NextQuery ==
    \/ \E f \in QueryPaths, n \in QueryNames, ti \in Titles : AllIdle /\ Index("t1", f, n, ti)
    \/ DeleteArticles("t1")
    \/ DeletePages("t1")
    \/ Parse("t1")
    \/ InsertPage("t1")
    \/ InsertArticle("t1")
    \/ UpdateCount("t1")
    \/ Commit("t1")
    \/ \E q \in Queries : Fresh /\ Search(q, DefaultLimit)
    \/ \E q \in Queries : Fresh /\ WebSearch(q, DefaultLimit)

SpecQuery == Init /\ [][NextQuery]_vars

\* one caller indexes documents of different length under two names; search
\* is called with words and with a number, under several limits
RankPaths == {"fa", "law", "two"}
RankQueries == {<<"a">>, <<"1">>, <<"a", " ", "b">>}
RankLimits == {0, 1, 2, DefaultLimit}

NextRank ==
    \/ \E f \in RankPaths, n \in Names, ti \in Titles : AllIdle /\ Index("t1", f, n, ti)
    \/ DeleteArticles("t1")
    \/ DeletePages("t1")
    \/ Parse("t1")
    \/ InsertPage("t1")
    \/ InsertArticle("t1")
    \/ UpdateCount("t1")
    \/ Commit("t1")
    \/ \E q \in RankQueries, l \in RankLimits : AllIdle /\ Fresh /\ Search(q, l)

SpecRank == Init /\ [][NextRank]_vars

\* one caller indexes documents with pages that hold no unit and with no
\* page at all; statistics are read between the calls
PagePaths == {"gap", "nomark", "pre", "two", "law"}

NextPages ==
    \/ \E f \in PagePaths, n \in Names, ti \in Titles : AllIdle /\ Index("t1", f, n, ti)
    \/ DeleteArticles("t1")
    \/ DeletePages("t1")
    \/ Parse("t1")
    \/ InsertPage("t1")
    \/ InsertArticle("t1")
    \/ UpdateCount("t1")
    \/ Commit("t1")
    \/ AllIdle /\ Fresh /\ Statistics

SpecPages == Init /\ [][NextPages]_vars

\* searches and page reads with words that are and are not highlighted
HighlightPaths == {"law", "words", "two"}
Word3 == <<"a", "b", "c">>
SearchWords == {Word3, ChapterKeyword}
PageHighlights == {<<>>, <<" ">>, <<"a", "b">>, <<"a", "b", " ", "d">>, Word3}

NextHighlight ==
    \/ \E f \in HighlightPaths, n \in Names, ti \in Titles : AllIdle /\ Index("t1", f, n, ti)
    \/ DeleteArticles("t1")
    \/ DeletePages("t1")
    \/ Parse("t1")
    \/ InsertPage("t1")
    \/ InsertArticle("t1")
    \/ UpdateCount("t1")
    \/ Commit("t1")
    \/ \E q \in SearchWords : AllIdle /\ Fresh /\ Search(q, DefaultLimit)
    \/ \E n \in Names, pn \in PageNumbers, h \in PageHighlights : Fresh /\ GetPage(n, pn, h)

SpecHighlight == Init /\ [][NextHighlight]_vars

\* _highlight_matches alone, on one line of text
MaxTextLen == 4
TextChars == {"a", "b", "A"}
WordChars == {"a", "b", " "}
\* a word of the enhanced marker
MarkWord == <<"m", "a", "r", "k">>
\* two words of which one occurs inside the other
NestedWords ==
    {<<"a", "b", "a", "b", " ", "a", "b", "a">>, <<"a", "b", "a", " ", "a", "b", "a", "b">>}
MarkedTexts == UNION {[1..n -> TextChars] : n \in 0..MaxTextLen} \cup {MarkWord}
MarkedQueries == UNION {[1..n -> WordChars] : n \in 0..MaxQueryLen} \cup NestedWords \cup {MarkWord}

InitMarkers ==
    /\ engine \in {"basic", "enhanced"}
    /\ db = EmptyDb
    /\ committed = EmptyDb
    /\ call = [t \in Threads |-> IdleCall]
    /\ snap = [t \in Threads |-> EmptyDb]
    /\ expect = [t \in Threads |-> EmptyDb]
    /\ last_ok = NoArgs
    /\ calls = 0
    /\ seg = NoSegmenterRun
    /\ \E text \in MarkedTexts, query \in MarkedQueries :
          observed = [op |-> "text", text |-> text, query |-> query]

\* _highlight_matches(text, query)
Highlight ==
    /\ observed.op = "text"
    /\ observed' =
          [op |-> "highlight", text |-> observed.text, query |-> observed.query,
           once |-> highlight_matches(<<observed.text>>, observed.query, Enhanced)[1]]
    /\ UNCHANGED <<engine, db, committed, call, snap, expect, last_ok, calls, seg>>

\* _highlight_matches on the text it returned, and on the first text again
Rehighlight ==
    /\ observed.op = "highlight"
    /\ observed' =
          [op |-> "rehighlight", text |-> observed.text, query |-> observed.query,
           once |-> observed.once,
           twice |-> highlight_matches(<<observed.once>>, observed.query, Enhanced)[1],
           again |-> highlight_matches(<<observed.text>>, observed.query, Enhanced)[1]]
    /\ UNCHANGED <<engine, db, committed, call, snap, expect, last_ok, calls, seg>>

NextMarkers ==
    \/ Highlight
    \/ Rehighlight

SpecMarkers == InitMarkers /\ [][NextMarkers]_vars

(***************************************************************************)
(* The segmenter followed line by line                                     *)
(***************************************************************************)
ChapterLineB == ChapterKeyword \o <<" ", "b">>
Gen10 == <<"a", " ", "a", " ", "a", " ", "a", " ", "a", "a">>
ArticleLine2 == ArticleKeyword \o <<" ", "(", "2", ")">>
\* the article keyword followed by an empty pair of parentheses
EmptyLabelLine == ArticleKeyword \o <<" ", "(", ")">>

\* the lines the segmented documents are made of
LinePool ==
    {PM2, ChapterLine, ChapterLineB, SectionLine, ArticleLine, BodyLine, Gen10, GenA, <<>>}

\* a first page marker and up to MaxLines lines of the pool, and one longer
\* document with an article of three body lines
LongArticle == <<PM1, ChapterLine, SectionLine, ArticleLine, BodyLine, GenA, Gen10>>

\* the lines of the documents that hold several article markers
ArticlePool == {PM2, ArticleLine, ArticleLine2, EmptyLabelLine, BodyLine, GenA}

Documents ==
    {<<PM1>> \o body : body \in UNION {[1..n -> LinePool] : n \in 0..MaxLines}}
        \cup {<<PM1>> \o body : body \in UNION {[1..n -> ArticlePool] : n \in 0..MaxLines}}
        \cup {LongArticle}

\* the documents a later run of the same segmenter is given
LaterDocuments == {<<PM1, GenA>>, <<PM1, ChapterLine, ChapterLineB, PM2, GenA>>}

SegmentedName == <<"d">>
NoLabels == [chapter |-> <<>>, section |-> <<>>]
NoLine ==
    [scanned |-> FALSE, line |-> <<>>, in_article |-> FALSE, units |-> 0,
     number |-> <<>>, content |-> <<>>]

\* parse_markdown_document(_enhanced) begins: the text is split into pages
\* and current_chapter, current_section and article_id are initialised
NewRun(lines, parses, prev) ==
    LET pgs == SplitPages(lines, 1)
    IN [phase |-> IF pgs = <<>> THEN "done" ELSE "page",
        parses |-> parses,
        pgs |-> pgs,
        p |-> IF pgs = <<>> THEN 0 ELSE 1,
        k |-> 0,
        st |-> SegmenterStart,
        opened |-> <<>>,
        open_at |-> [p |-> 0, k |-> 0],
        last |-> NoLine,
        prev |-> prev]

InitSegment ==
    /\ engine \in {"basic", "enhanced"}
    /\ db = EmptyDb
    /\ committed = EmptyDb
    /\ call = [t \in Threads |-> IdleCall]
    /\ snap = [t \in Threads |-> EmptyDb]
    /\ expect = [t \in Threads |-> EmptyDb]
    /\ last_ok = NoArgs
    /\ calls = 0
    /\ observed = NoneObserved
    /\ \E lines \in Documents : seg = NewRun(lines, 1, NoLabels)

\* the page loop without the per-page reset of the open article
BeginPageKeepsArticle ==
    /\ seg.phase = "page"
    /\ seg' = [seg EXCEPT !.phase = "line", !.k = 0, !.last = NoLine]
    /\ UNCHANGED <<engine, db, committed, call, snap, expect, last_ok, calls, observed>>

\* the top of the page loop
BeginPage ==
    /\ seg.phase = "page"
    /\ seg' = [seg EXCEPT !.phase = "line", !.k = 0, !.st = OpenPage(@), !.last = NoLine]
    /\ UNCHANGED <<engine, db, committed, call, snap, expect, last_ok, calls, observed>>

\* where the units the step has added to st.units were opened
OpenedAfter(before, after, here, open_at) ==
    IF Len(after.units) = Len(before.units) THEN <<>>
    ELSE IF after.units[Len(after.units)].article_type = "general" THEN <<here>>
    ELSE <<open_at>>

\* one iteration of the line loop
ScanOne ==
    /\ seg.phase = "line"
    /\ seg.k < Len(seg.pgs[seg.p].content)
    /\ LET raw == seg.pgs[seg.p].content[seg.k + 1]
           here == [p |-> seg.p, k |-> seg.k + 1]
           after == ScanLine(seg.st, seg.k, raw, seg.pgs[seg.p].page_number, SegmentedName)
       IN seg' = [seg EXCEPT
                    !.k = @ + 1,
                    !.st = after,
                    !.opened = @ \o OpenedAfter(seg.st, after, here, seg.open_at),
                    !.open_at = IF ArticleMatch(Strip(raw)).matched
                                   /\ ~StartsWith(Strip(raw), ChapterKeyword)
                                   /\ ~StartsWith(Strip(raw), SectionKeyword)
                                THEN here ELSE @,
                    !.last = [scanned |-> TRUE, line |-> Strip(raw),
                              in_article |-> seg.st.in_article,
                              units |-> Len(seg.st.units),
                              number |-> seg.st.number,
                              content |-> seg.st.content]]
    /\ UNCHANGED <<engine, db, committed, call, snap, expect, last_ok, calls, observed>>

\* after the last line of the page; the next page or the return
EndPage ==
    /\ seg.phase = "line"
    /\ seg.k = Len(seg.pgs[seg.p].content)
    /\ LET after == ClosePage(seg.st, seg.pgs[seg.p].page_number, SegmentedName)
       IN seg' = [seg EXCEPT
                    !.phase = IF seg.p < Len(seg.pgs) THEN "page" ELSE "done",
                    !.p = IF seg.p < Len(seg.pgs) THEN @ + 1 ELSE @,
                    !.k = IF seg.p < Len(seg.pgs) THEN 0 ELSE @,
                    !.st = after,
                    !.opened = @ \o OpenedAfter(seg.st, after, seg.open_at, seg.open_at),
                    !.last = NoLine]
    /\ UNCHANGED <<engine, db, committed, call, snap, expect, last_ok, calls, observed>>

\* the same engine segments another document
ParseAgain(lines) ==
    /\ seg.phase = "done"
    /\ seg.parses < MaxParses
    /\ seg' = NewRun(lines, seg.parses + 1,
                     [chapter |-> seg.st.chapter, section |-> seg.st.section])
    /\ UNCHANGED <<engine, db, committed, call, snap, expect, last_ok, calls, observed>>

NextSegment ==
    \/ BeginPage
    \/ ScanOne
    \/ EndPage
    \/ \E lines \in LaterDocuments : ParseAgain(lines)

SpecSegment == InitSegment /\ [][NextSegment]_vars

\* the units the segmenter of the engine has emitted so far
SegmentedUnits ==
    IF Enhanced THEN seg.st.units
    ELSE [i \in 1..Len(seg.st.units) |-> [seg.st.units[i] EXCEPT !.position_in_page = Null]]

(***************************************************************************)
(* What a caller can see of the Catalog, without record ids                *)
(***************************************************************************)
Owned(d, rows) == {r \in rows : \E doc \in d.documents : doc.id = r.document_id}
OwnerName(d, r) == (CHOOSE doc \in d.documents : doc.id = r.document_id).name

UnitFields(a) ==
    [page_number |-> a.page_number, chapter |-> a.chapter, section |-> a.section,
     article_number |-> a.article_number, title |-> a.title, content |-> a.content,
     article_type |-> a.article_type]

\* the documents, pages and units of all names
CatalogView(d) ==
    [documents |-> {[name |-> doc.name, title |-> doc.title, file_path |-> doc.file_path,
                     pages_count |-> doc.pages_count] : doc \in d.documents},
     pages |-> {[name |-> OwnerName(d, pg), page_number |-> pg.page_number,
                 content |-> pg.content] : pg \in Owned(d, d.pages)},
     units |-> {[name |-> OwnerName(d, a), unit |-> UnitFields(a)] : a \in Owned(d, d.articles)}]

\* the document, pages and units of one name
NameView(d, name) ==
    LET v == CatalogView(d)
    IN [documents |-> {x \in v.documents : x.name = name},
        pages |-> {x \in v.pages : x.name = name},
        units |-> {x \in v.units : x.name = name}]

\* the units a search returns, without ids and rank
Found(r) ==
    [status |-> r.status,
     units |-> [i \in 1..Len(r.results) |->
                  [name |-> r.results[i].row.document_name,
                   unit |-> UnitFields(r.results[i].row)]]]

Orphans(d) == (d.pages \ Owned(d, d.pages)) \cup (d.articles \ Owned(d, d.articles))

Caller == "t1"
FailedAfterStart(c) ==
    c.pc = "idle" /\ c.outcome \in {"UnicodeDecodeError", "IntegrityError", "OperationalError"}
Returned(c) == c.pc = "idle" /\ c.outcome = "ok"

(***************************************************************************)
(* Claims                                                                  *)
(***************************************************************************)
\* C1: once a document name has been indexed again, every unit a search
\* returns under that name was produced by the latest indexing of the name:
\* it is a unit of the file the name was indexed from last, and no unit
\* stored by an earlier call is returned under the name of the latest call.
C1_SearchReturnsLatestContentOnly ==
    (observed.op = "search" /\ observed.result.status = "ok") =>
        \A i \in 1..Len(observed.result.results) :
            LET row == observed.result.results[i].row
            IN /\ \E doc \in db.documents :
                    /\ doc.name = row.document_name
                    /\ doc.id = row.document_id
                    /\ LET units == IF Enhanced
                                    THEN ParsedEnhanced[doc.file_path, doc.name].articles
                                    ELSE ParsedBasic[doc.file_path, doc.name]
                       IN \E k \in 1..Len(units) : UnitFields(units[k]) = UnitFields(row)
               /\ (call[Caller].document_id # Null /\ row.document_name = call[Caller].document_name)
                    => row.id > snap[Caller].seq.articles

\* a search returns a unit of a name whose earlier indexing, from another
\* file, had stored units
C1_Witness ==
    /\ Returned(call[Caller])
    /\ observed.op = "search"
    /\ observed.result.status = "ok"
    /\ Len(observed.result.results) > 0
    /\ observed.result.results[1].row.document_name = call[Caller].document_name
    /\ \E doc \in snap[Caller].documents :
          /\ doc.name = call[Caller].document_name
          /\ doc.file_path # call[Caller].file_path
          /\ \E a \in snap[Caller].articles : a.document_id = doc.id

\* C2: after index_document calls, every page and every unit is owned by a
\* document of the Catalog (re-indexing a name deletes what the earlier
\* indexing of the name stored).
C2_NoOrphanRecords == AllIdle => Orphans(db) = {}

\* C3: a call that fails after it has started leaves the document, pages and
\* units of its document name as they were before the call.
C3_FailedCallLeavesNameUntouched ==
    FailedAfterStart(call[Caller]) =>
        NameView(db, call[Caller].document_name) = NameView(snap[Caller], call[Caller].document_name)

\* C4: a call that repeats the call before it (same name, title, path and
\* content) leaves the Catalog, the statistics and the units every search
\* finds as the first call left them.
C4_ReindexIsIdempotent ==
    (Returned(call[Caller]) /\ call[Caller].repeat) =>
        /\ CatalogView(db) = CatalogView(snap[Caller])
        /\ get_statistics(db, Enhanced) = get_statistics(snap[Caller], Enhanced)
        /\ \A q \in ProbeQueries :
              {Found(r) : r \in EngineSearch(db, q, DefaultLimit)}
                  = {Found(r) : r \in EngineSearch(snap[Caller], q, DefaultLimit)}

\* what a read operation returns on database d
ReadOn(d, o) ==
    CASE o.op = "search" -> EngineSearch(d, o.query, o.limit)
      [] o.op = "statistics" -> {get_statistics(d, Enhanced)}
      [] o.op = "get_page" ->
            {get_page_with_highlighted_text(d, o.document_name, o.page_number, o.search_query)}
      [] OTHER -> {}

\* C5: a read that runs while an index_document call is in progress returns
\* what it returns on the database before the call or on the database after
\* the call.
C5_ReadsAreIsolated ==
    (observed.op \in {"search", "statistics", "get_page"} /\ call[Caller].pc # "idle") =>
        observed.result \in ReadOn(snap[Caller], observed) \cup ReadOn(expect[Caller], observed)

\* the two calls of a behaviour in which the second began while the first
\* was in progress, both for the same document name, and both are over
Overlapped(first, second) ==
    /\ calls = 2
    /\ AllIdle
    /\ first \in call[second].overlaps
    /\ call[first].document_name = call[second].document_name

InOrder(first, second) ==
    index_document(expect[first], Enhanced, call[second].file_path,
                   call[second].document_name, call[second].title).db

\* C6: two overlapping calls for one name leave what the two calls leave
\* when one runs after the other, in one of the two orders, and no page or
\* unit of the call that lost is left behind.
C6_OverlappingCallsAreSerialized ==
    \A first \in Threads, second \in Threads :
        Overlapped(first, second) =>
            /\ \/ CatalogView(db) = CatalogView(InOrder(first, second))
               \/ CatalogView(db) =
                     CatalogView(index_document(
                         index_document(snap[first], Enhanced, call[second].file_path,
                                        call[second].document_name, call[second].title).db,
                         Enhanced, call[first].file_path, call[first].document_name,
                         call[first].title).db)
            /\ Orphans(db) = {}

\* C7: after every index_document call the unit index holds one posting for
\* each unit of the articles table and none besides, and the page index one
\* posting for each page of the pages table and none besides.
C7_IndexMatchesCatalog ==
    AllIdle =>
        /\ \A a \in db.articles :
              Cardinality({f \in db.articles_fts : f.rowid = a.id}) = 1
        /\ \A f \in db.articles_fts :
              \E a \in db.articles :
                 /\ a.id = f.rowid
                 /\ a.id = f.article_id
                 /\ f.cols[Len(f.cols)] = TokenizeText(a.content)
        /\ \A pg \in db.pages :
              Cardinality({f \in db.pages_fts : f.rowid = pg.id}) = 1
        /\ \A f \in db.pages_fts :
              \E pg \in db.pages :
                 /\ pg.id = f.rowid
                 /\ pg.id = f.page_id
                 /\ f.cols[Len(f.cols)] = TokenizeText(pg.content)

\* a call has returned and units are stored, and pages on the enhanced engine
C7_Witness ==
    /\ Returned(call[Caller])
    /\ db.articles # {}
    /\ Enhanced => db.pages # {}
    /\ calls = 2

IsBlankQuery(q) == Strip(q) = <<>>

\* C8: search with an empty or all-blank query is rejected with the error
\* for empty queries; it returns no result list and raises no other error.
C8_BlankQueryIsRejected ==
    (observed.op \in {"search", "search_documents"} /\ IsBlankQuery(observed.query)) =>
        observed.result.status \in {"EmptyQuery", "HTTP 400"}

\* some stored unit holds every word of the query (the words as the index
\* tokenizes them: punctuation separates, letters are lower-cased)
MatchesSomeUnit(q) ==
    /\ Tokenize(q) # <<>>
    /\ \E f \in db.articles_fts :
          \A k \in 1..Len(Tokenize(q)) :
              \E c \in 1..Len(f.cols) : \E j \in 1..Len(f.cols[c]) :
                  f.cols[c][j] = Tokenize(q)[k]

\* C9: search with a query that is not blank and matches no unit returns the
\* empty sequence and does not raise.
C9_NoMatchReturnsEmpty ==
    (/\ observed.op = "search"
     /\ ~IsBlankQuery(observed.query)
     /\ ~MatchesSomeUnit(observed.query)) =>
        /\ observed.result.status = "ok"
        /\ observed.result.results = <<>>

ObservedMatches ==
    MatchedRows(db, ParseMatch(IF Enhanced THEN observed.query
                               ELSE Strip(observed.query)).phrases)
ObservedRows == [i \in 1..Len(observed.result.results) |-> observed.result.results[i].row]
Min(a, b) == IF a <= b THEN a ELSE b

\* C11: for a limit n >= 0 and a query with m matching units search returns
\* min(n, m) results: distinct matching units, in rank order, none of them
\* ranked worse than a matching unit that is not returned.
C11_LimitKeepsBestRanked ==
    (observed.op = "search" /\ observed.result.status = "ok" /\ observed.limit >= 0) =>
        LET rows == ObservedRows
            returned == {rows[i] : i \in 1..Len(rows)}
        IN /\ Len(rows) = Min(observed.limit, Cardinality(ObservedMatches))
           /\ Cardinality(returned) = Len(rows)
           /\ returned \subseteq ObservedMatches
           /\ \A i \in 1..Len(rows), j \in 1..Len(rows) : i < j => rows[i].rank <= rows[j].rank
           /\ \A x \in returned, y \in ObservedMatches \ returned : x.rank <= y.rank

\* a search under a limit below the number of matching units, which leaves
\* out a unit ranked worse than one it returns
C11_Witness ==
    /\ observed.op = "search"
    /\ observed.result.status = "ok"
    /\ observed.limit >= 1
    /\ Len(observed.result.results) = observed.limit
    /\ \E y \in ObservedMatches :
          /\ \A i \in 1..Len(ObservedRows) : ObservedRows[i] # y
          /\ ObservedRows[1].rank < y.rank

\* the word occurs in the text, as the index reads words
OccursIn(word, text) == \E j \in 1..Len(Tokenize(text)) : Tokenize(text)[j] = Lower(word)

\* C12: search returns a unit only if every word of the query occurs in the
\* unit's document name, chapter, section, article number, title or body.
C12_MatchesOnTextFieldsOnly ==
    (observed.op = "search" /\ observed.result.status = "ok") =>
        \A i \in 1..Len(ObservedRows) :
            \A k \in 1..Len(Split(observed.query)) :
                LET word == Split(observed.query)[k]
                    row == ObservedRows[i]
                IN \/ OccursIn(word, row.document_name)
                   \/ OccursIn(word, row.chapter)
                   \/ OccursIn(word, row.section)
                   \/ OccursIn(word, row.article_number)
                   \/ OccursIn(word, row.title)
                   \/ \E n \in 1..Len(row.content) : OccursIn(word, row.content[n])

\* the call of the caller is over, by return or by an exception
Over(c) == c.pc = "idle" /\ c.outcome # "none"

\* C13: index_document with a path that does not exist raises and leaves the
\* documents, pages, units and both indexes as they were, on the connection
\* and on disk.
C13_MissingFileChangesNothing ==
    (Over(call[Caller]) /\ ~FileSystem[call[Caller].file_path].exists) =>
        /\ call[Caller].outcome = "FileNotFoundError"
        /\ db = snap[Caller]
        /\ (calls = 1 => committed = EmptyDb)

\* a call with a missing path is over, on a database that held a document
C13_Witness ==
    /\ Over(call[Caller])
    /\ ~FileSystem[call[Caller].file_path].exists
    /\ snap[Caller].documents # {}
    /\ snap[Caller].articles # {}

\* the pages the segmenter finds in the file of a call
PagesOfFile(c) == ParsedEnhanced[c.file_path, c.document_name].pages_content
RepeatsPageNumber(c) ==
    \E i \in 1..Len(PagesOfFile(c)), j \in 1..Len(PagesOfFile(c)) :
        i < j /\ PagesOfFile(c)[i].page_number = PagesOfFile(c)[j].page_number

\* C14: indexing a document in which a page number follows two page markers
\* succeeds and leaves one page of that number, with the text of the later
\* occurrence.
C14_RepeatedPageNumberOverwrites ==
    (Enhanced /\ Over(call[Caller]) /\ FileSystem[call[Caller].file_path].utf8
       /\ RepeatsPageNumber(call[Caller])) =>
        /\ call[Caller].outcome = "ok"
        /\ \A i \in 1..Len(PagesOfFile(call[Caller])) :
              LET number == PagesOfFile(call[Caller])[i].page_number
                  last == CHOOSE j \in 1..Len(PagesOfFile(call[Caller])) :
                             /\ PagesOfFile(call[Caller])[j].page_number = number
                             /\ \A k \in 1..Len(PagesOfFile(call[Caller])) :
                                   PagesOfFile(call[Caller])[k].page_number = number => k <= j
                  stored == {pg \in db.pages : /\ pg.document_id = call[Caller].document_id
                                               /\ pg.page_number = number}
              IN /\ Cardinality(stored) = 1
                 /\ \A pg \in stored : pg.content = PagesOfFile(call[Caller])[last].content

\* the page numbers that follow the page markers of a file
MarkedPages(lines) == {MarkerNumber(lines[i]) : i \in {k \in 1..Len(lines) : IsPageMarker(lines[k])}}

\* C15: after a successful call the page count of the document is the
\* largest page number that follows a page marker of its file, 0 if the file
\* has no page marker, on both engines.
C15_PageCountIsLargestPageNumber ==
    Returned(call[Caller]) =>
        \A doc \in db.documents :
            doc.id = call[Caller].document_id =>
                doc.pages_count = MaxOf(MarkedPages(FileSystem[doc.file_path].lines))

\* C16: after successful calls only, statistics count the units and pages of
\* the documents of the Catalog, and the units are as many as the latest call
\* for each name returned.
C16_StatisticsCountCurrentDocuments ==
    (Returned(call[Caller]) /\ call[Caller].clean) =>
        LET stats == get_statistics(db, Enhanced)
        IN /\ stats.articles_count = Cardinality(Owned(db, db.articles))
           /\ Enhanced => stats.pages_count = Cardinality(Owned(db, db.pages))
           /\ stats.documents_count = 1 => stats.articles_count = call[Caller].returned

\* the stripped lines of pages 1..p-1 and of the first k lines of page p, in
\* the order the segmenter scans them
RECURSIVE ScannedLines(_, _, _)
ScannedLines(pgs, p, k) ==
    IF p = 0 THEN <<>>
    ELSE ScannedLines(pgs, p - 1, IF p = 1 THEN 0 ELSE Len(pgs[p - 1].content))
            \o [i \in 1..k |-> Strip(pgs[p].content[i])]

\* the last of the lines that begins with the keyword, the empty string if
\* none does
RECURSIVE LastMarker(_, _)
LastMarker(lines, keyword) ==
    IF lines = <<>> THEN <<>>
    ELSE IF StartsWith(lines[Len(lines)], keyword) THEN lines[Len(lines)]
    ELSE LastMarker(SubSeq(lines, 1, Len(lines) - 1), keyword)

Running == seg.phase \in {"page", "line", "done"}

\* C17: the chapter of every emitted unit is the last chapter-marker line
\* before the unit's opening line (the article marker of an article, the
\* line itself of a general unit), and its section the last section-marker
\* line before it; a marker after the article marker does not change them.
C17_LabelsAreThoseAtOpening ==
    Running =>
        \A i \in 1..Len(SegmentedUnits) :
            LET before == ScannedLines(seg.pgs, seg.opened[i].p, seg.opened[i].k - 1)
            IN /\ SegmentedUnits[i].chapter = LastMarker(before, ChapterKeyword)
               /\ SegmentedUnits[i].section = LastMarker(before, SectionKeyword)

\* C18: at every step of a segmenter run current_chapter is the last
\* chapter-marker line scanned so far in the document and current_section
\* the last section-marker line, across pages; a run begins with both empty.
C18_CarriedLabelsFollowMarkers ==
    Running =>
        LET scanned == ScannedLines(seg.pgs, seg.p, seg.k)
        IN /\ seg.st.chapter = LastMarker(scanned, ChapterKeyword)
           /\ seg.st.section = LastMarker(scanned, SectionKeyword)
           /\ scanned = <<>> => (seg.st.chapter = <<>> /\ seg.st.section = <<>>)

\* the second run of a segmenter, whose first run ended with a chapter, is on
\* its second page and carries the later of two chapter markers of page one
C18_Witness ==
    /\ Running
    /\ seg.parses = 2
    /\ seg.prev.chapter = ChapterLine
    /\ seg.p = 2
    /\ seg.pgs[1].content = <<ChapterLine, ChapterLineB>>
    /\ seg.st.chapter = ChapterLineB

IsMarkerLine(line) ==
    \/ StartsWith(line, ChapterKeyword)
    \/ StartsWith(line, SectionKeyword)
    \/ ArticleMatch(line).matched

\* C19: while no article is open, a non-blank line that is no marker becomes
\* a general unit if and only if it is longer than 10 characters; the unit
\* has no article number and no title and its body is the stripped line.
C19_GeneralUnitIffLongerThanTen ==
    (/\ Running
     /\ seg.last.scanned
     /\ ~seg.last.in_article
     /\ seg.last.line # <<>>
     /\ ~IsMarkerLine(seg.last.line)) =>
        LET n == Len(SegmentedUnits)
        IN /\ n = seg.last.units + (IF Len(seg.last.line) > 10 THEN 1 ELSE 0)
           /\ n > seg.last.units =>
                 /\ SegmentedUnits[n].article_type = "general"
                 /\ SegmentedUnits[n].article_number = <<>>
                 /\ SegmentedUnits[n].title = <<>>
                 /\ SegmentedUnits[n].content = <<seg.last.line>>

\* a line of 11 characters has just been emitted as the first unit, after a
\* line of 10 characters of the same page was dropped
C19_Witness ==
    /\ Running
    /\ seg.last.scanned
    /\ ~seg.last.in_article
    /\ Len(seg.last.line) = 11
    /\ Len(SegmentedUnits) = 1
    /\ seg.k >= 2
    /\ Len(Strip(seg.pgs[seg.p].content[seg.k - 1])) = 10
    /\ ~IsMarkerLine(Strip(seg.pgs[seg.p].content[seg.k - 1]))

\* a page of a chapter marker, a section marker, an article marker and one
\* or more body lines
IsArticlePage(content) ==
    /\ Len(content) >= 4
    /\ StartsWith(Strip(content[1]), ChapterKeyword)
    /\ StartsWith(Strip(content[2]), SectionKeyword)
    /\ ~StartsWith(Strip(content[3]), ChapterKeyword)
    /\ ~StartsWith(Strip(content[3]), SectionKeyword)
    /\ ArticleMatch(Strip(content[3])).matched
    /\ \A i \in 4..Len(content) :
          Strip(content[i]) # <<>> /\ ~IsMarkerLine(Strip(content[i]))

PageScanned(p) == seg.p > p \/ seg.phase = "done"

\* C20: a page of a chapter marker, a section marker, an article marker with
\* label L and k >= 1 body lines yields one unit: an article with number L,
\* the two marker lines as chapter and section, and the body lines in order.
C20_ArticlePageYieldsOneUnit ==
    Running =>
        \A p \in 1..Len(seg.pgs) :
            (PageScanned(p) /\ IsArticlePage(seg.pgs[p].content)) =>
                LET content == seg.pgs[p].content
                    of_page == {i \in 1..Len(SegmentedUnits) : seg.opened[i].p = p}
                IN /\ Cardinality(of_page) = 1
                   /\ \A i \in of_page :
                         /\ SegmentedUnits[i].article_type = "article"
                         /\ SegmentedUnits[i].article_number = ArticleMatch(Strip(content[3])).label
                         /\ SegmentedUnits[i].chapter = Strip(content[1])
                         /\ SegmentedUnits[i].section = Strip(content[2])
                         /\ SegmentedUnits[i].content =
                               [j \in 1..Len(content) - 3 |-> Strip(content[j + 3])]
                         /\ SegmentedUnits[i].page_number = seg.pgs[p].page_number

\* the run is over a document whose one page is such a page with three body
\* lines
C20_Witness ==
    /\ seg.phase = "done"
    /\ Len(seg.pgs) = 1
    /\ IsArticlePage(seg.pgs[1].content)
    /\ Len(seg.pgs[1].content) = 6
    /\ Len(SegmentedUnits) = 1
    /\ Len(SegmentedUnits[1].content) = 3

\* the lines of a file from its first page marker on
FromFirstMarker(lines) ==
    LET markers == {k \in 1..Len(lines) : IsPageMarker(lines[k])}
    IN IF markers = {} THEN <<>>
       ELSE SubSeq(lines, CHOOSE k \in markers : \A j \in markers : k <= j, Len(lines))

\* C22: a call on a readable file with no page marker ends without error,
\* returns 0, stores no page and no unit for the document and sets its page
\* count to 0; and what a successful call stores is what the text from the
\* first page marker on yields, so the text before it gives no page or unit.
C22_NoPageMarkerStoresNothing ==
    LET c == call[Caller]
        file == FileSystem[c.file_path]
    IN (Over(c) /\ file.exists /\ file.utf8) =>
          LET units == {a \in db.articles : a.document_id = c.document_id}
              pages == {pg \in db.pages : pg.document_id = c.document_id}
              parsed == parse_markdown_document_enhanced(FromFirstMarker(file.lines),
                                                         c.document_name)
          IN /\ MarkedPages(file.lines) = {} =>
                   /\ c.outcome = "ok"
                   /\ c.returned = 0
                   /\ units = {}
                   /\ pages = {}
                   /\ \E doc \in db.documents : doc.id = c.document_id
                   /\ \A doc \in db.documents :
                         doc.id = c.document_id => doc.pages_count = 0
             /\ Returned(c) =>
                   /\ c.returned = Len(parsed.articles)
                   /\ {UnitFields(a) : a \in units} =
                         {UnitFields(parsed.articles[i]) : i \in 1..Len(parsed.articles)}
                   /\ Enhanced =>
                         {[page_number |-> pg.page_number, content |-> pg.content] : pg \in pages} =
                            {[page_number |-> parsed.pages_content[i].page_number,
                              content |-> parsed.pages_content[i].content] :
                                 i \in 1..Len(parsed.pages_content)}

\* a second call, on a file without a page marker, has returned 0 for a name
\* that had a document with units before it
C22_Witness ==
    /\ Returned(call[Caller])
    /\ MarkedPages(FileSystem[call[Caller].file_path].lines) = {}
    /\ call[Caller].returned = 0
    /\ \E doc \in snap[Caller].documents :
          /\ doc.name = call[Caller].document_name
          /\ \E a \in snap[Caller].articles : a.document_id = doc.id

\* a call on a file with text before its first page marker has returned
C22_PreambleWitness ==
    /\ Returned(call[Caller])
    /\ MarkedPages(FileSystem[call[Caller].file_path].lines) # {}
    /\ ~IsPageMarker(FileSystem[call[Caller].file_path].lines[1])
    /\ call[Caller].returned = 1

\* the markers of the engine
Open == IF Enhanced THEN EnhancedOpen ELSE BasicOpen
Close == IF Enhanced THEN EnhancedClose ELSE BasicClose

StartsAt(s, i, w) == i + Len(w) - 1 <= Len(s) /\ SubSeq(s, i, i + Len(w) - 1) = w
Contains(s, w) == \E i \in 1..Len(s) : StartsAt(s, i, w)
ContainsIgnoringCase(s, w) == \E i \in 1..Len(s) : StartsAt(Lower(s), i, Lower(w))

\* the long words of a query
LongWords(query) == {Split(query)[k] : k \in {j \in 1..Len(Split(query)) : Len(Split(query)[j]) > 2}}

\* C23: for a query of one word longer than 2 characters, every result of
\* search has a highlighted body of which some line contains the query word
\* between the opening and the closing marker.
C23_ResultsCarryMarkedWord ==
    (/\ observed.op = "search"
     /\ observed.result.status = "ok"
     /\ Len(Split(observed.query)) = 1
     /\ Len(Split(observed.query)[1]) > 2) =>
        \A i \in 1..Len(observed.result.results) :
            LET body == observed.result.results[i].highlighted_content
            IN \E l \in 1..Len(body) :
                  Contains(body[l], Open \o Split(observed.query)[1] \o Close)

\* the text without the opening and closing markers in it
RECURSIVE RemoveMarkers(_, _, _, _)
RemoveMarkers(s, i, open, close) ==
    IF i > Len(s) THEN <<>>
    ELSE IF StartsAt(s, i, open) THEN RemoveMarkers(s, i + Len(open), open, close)
    ELSE IF StartsAt(s, i, close) THEN RemoveMarkers(s, i + Len(close), open, close)
    ELSE <<s[i]>> \o RemoveMarkers(s, i + 1, open, close)

\* C24: highlighting only wraps: the highlighted text with its markers
\* removed is the target text, character for character.
C24_RemovingMarkersGivesText ==
    observed.op \in {"highlight", "rehighlight"} =>
        RemoveMarkers(observed.once, 1, Open, Close) = observed.text

\* no word of the highlight text is longer than 2 characters
NoLongWord(query) == LongWords(query) = {}

\* C25: get_page_with_highlighted_text with a highlight text that is empty,
\* blank or of words of at most 2 characters returns the page with a
\* highlighted body equal to the stored body; it returns nothing exactly
\* when the document of that name has no page of that number.
C25_ShortWordsLeaveBodyUnmarked ==
    observed.op = "get_page" =>
        LET stored == {pg \in db.pages :
                          /\ pg.page_number = observed.page_number
                          /\ \E doc \in db.documents :
                                doc.id = pg.document_id /\ doc.name = observed.document_name}
        IN /\ observed.result.found <=> stored # {}
           /\ observed.result.found =>
                 /\ \E pg \in stored : pg.content = observed.result.page.content
                 /\ NoLongWord(observed.search_query) =>
                       observed.result.highlighted_content = observed.result.page.content

\* the page of the words was read with a highlight text of a two-letter word
\* and a one-letter word, both on the page
C25_Witness ==
    /\ observed.op = "get_page"
    /\ observed.result.found
    /\ observed.search_query = <<"a", "b", " ", "d">>
    /\ observed.result.page.content = <<WordsLine>>
    /\ observed.result.highlighted_content = <<WordsLine>>

\* C26: when a query word longer than 2 characters occurs in the text,
\* highlighting the highlighted text with the same query gives another text,
\* in which some query word is wrapped twice; highlighting the first text
\* again gives what the first call gave.
C26_RehighlightingWrapsTwice ==
    (/\ observed.op = "rehighlight"
     /\ \E w \in LongWords(observed.query) : ContainsIgnoringCase(observed.text, w)) =>
        /\ observed.twice # observed.once
        /\ \E w \in LongWords(observed.query) :
              Contains(observed.twice, Open \o Open \o w \o Close \o Close)
        /\ observed.again = observed.once

\* an article keyword with nothing between its parentheses, bold or not
IsEmptyLabelMarker(line) ==
    LET rest == IF StartsWith(line, Bold) THEN SubSeq(line, 3, Len(line)) ELSE line
    IN StartsWith(rest, EmptyLabelLine)

\* C21: a line of the article keyword with an empty pair of parentheses is
\* taken as an article marker: once it is scanned an article is open whose
\* number is the empty string and whose body is still empty.
C21_EmptyLabelOpensArticle ==
    (/\ Running
     /\ seg.last.scanned
     /\ IsEmptyLabelMarker(seg.last.line)) =>
        /\ seg.st.in_article
        /\ seg.st.number = <<>>
        /\ seg.st.content = <<>>

\* a stripped line the segmenter takes as an article marker
IsArticleMarker(line) ==
    /\ ~StartsWith(line, ChapterKeyword)
    /\ ~StartsWith(line, SectionKeyword)
    /\ ArticleMatch(line).matched

\* C27: when an article marker is scanned while an article is open, the open
\* article is emitted by that step as a unit with its own number and the body
\* accumulated so far, whatever that body is.
C27_OpenArticleEmittedAtNextMarker ==
    (/\ Running
     /\ seg.last.scanned
     /\ seg.last.in_article
     /\ IsArticleMarker(seg.last.line)) =>
        LET n == Len(SegmentedUnits)
        IN /\ n = seg.last.units + 1
           /\ SegmentedUnits[n].article_type = "article"
           /\ SegmentedUnits[n].article_number = seg.last.number
           /\ SegmentedUnits[n].content = seg.last.content

\* the body lines of the article whose marker is line k of the page: the
\* stripped lines after it that are neither blank nor a chapter or section
\* marker, up to the next article marker or the end of the page
RECURSIVE BodyFrom(_, _)
BodyFrom(content, i) ==
    IF i > Len(content) THEN <<>>
    ELSE LET line == Strip(content[i])
         IN IF IsArticleMarker(line) THEN <<>>
            ELSE IF \/ line = <<>>
                    \/ StartsWith(line, ChapterKeyword)
                    \/ StartsWith(line, SectionKeyword)
                 THEN BodyFrom(content, i + 1)
            ELSE <<line>> \o BodyFrom(content, i + 1)

\* the article markers of the pages scanned so far, as [p, k]
ScannedMarkers ==
    {x \in [p : 1..Len(seg.pgs), k : 1..MaxLines + 6] :
        /\ x.k <= Len(seg.pgs[x.p].content)
        /\ PageScanned(x.p)
        /\ IsArticleMarker(Strip(seg.pgs[x.p].content[x.k]))}

\* C28: an article never spans pages. At the first line of every page no
\* article is open; the body of every article unit is the body lines that
\* follow its marker on the marker's page and its page number is that
\* page's; a marker with no body line on its page yields no unit.
C28_ArticleNeverSpansPages ==
    Running =>
        /\ (seg.phase = "line" /\ seg.k = 0) => ~seg.st.in_article
        /\ \A i \in 1..Len(SegmentedUnits) :
              SegmentedUnits[i].article_type = "article" =>
                 LET at == seg.opened[i]
                 IN /\ IsArticleMarker(Strip(seg.pgs[at.p].content[at.k]))
                    /\ SegmentedUnits[i].page_number = seg.pgs[at.p].page_number
                    /\ SegmentedUnits[i].content = BodyFrom(seg.pgs[at.p].content, at.k + 1)
        /\ \A x \in ScannedMarkers :
              BodyFrom(seg.pgs[x.p].content, x.k + 1) = <<>> =>
                 ~\E i \in 1..Len(SegmentedUnits) :
                     /\ SegmentedUnits[i].article_type = "article"
                     /\ seg.opened[i] = x

\* the article of page one was emitted with its one body line, and the long
\* line at the top of page two became a general unit outside any article
C28_Witness ==
    /\ seg.phase = "done"
    /\ Len(seg.pgs) = 2
    /\ IsArticleMarker(Strip(seg.pgs[1].content[1]))
    /\ Len(seg.pgs[1].content) = 2
    /\ ~IsMarkerLine(Strip(seg.pgs[2].content[1]))
    /\ Len(SegmentedUnits) = 2
    /\ SegmentedUnits[1].article_type = "article"
    /\ SegmentedUnits[1].page_number = 1
    /\ SegmentedUnits[1].content = <<Strip(seg.pgs[1].content[2])>>
    /\ SegmentedUnits[2].article_type = "general"
    /\ SegmentedUnits[2].page_number = 2

\* C29: within one page the units are emitted in scan order: of two units of
\* a page the earlier one was opened at an earlier line and has the smaller
\* position-within-page, which is the index of its opening line, and no
\* general unit follows an article unit.
C29_PositionsIncreaseWithinPage ==
    Running =>
        /\ \A i \in 1..Len(SegmentedUnits) :
              Enhanced => SegmentedUnits[i].position_in_page = seg.opened[i].k - 1
        /\ \A i, j \in 1..Len(SegmentedUnits) :
              (i < j /\ seg.opened[i].p = seg.opened[j].p) =>
                 /\ seg.opened[i].k < seg.opened[j].k
                 /\ Enhanced =>
                       SegmentedUnits[i].position_in_page < SegmentedUnits[j].position_in_page
                 /\ ~(/\ SegmentedUnits[i].article_type = "article"
                      /\ SegmentedUnits[j].article_type = "general")

\* a page of the enhanced segmenter has yielded two general units and then
\* an article, at positions 0, 1 and 2
C29_Witness ==
    /\ Enhanced
    /\ seg.phase = "done"
    /\ Len(seg.pgs) = 1
    /\ Len(SegmentedUnits) = 3
    /\ SegmentedUnits[1].article_type = "general"
    /\ SegmentedUnits[2].article_type = "general"
    /\ SegmentedUnits[3].article_type = "article"
    /\ SegmentedUnits[1].position_in_page = 0
    /\ SegmentedUnits[2].position_in_page = 1
    /\ SegmentedUnits[3].position_in_page = 2

====
